---- MODULE Spec2Model ----
(***************************************************************************)
(* Model of the MCP client subsystem of the AI chat service:               *)
(*   src/mcp_client.py  MCPClient (JSON-RPC over HTTP with an optional     *)
(*                      text/event-stream answer) and MCPManager           *)
(* JSON documents are records; a Python dict key test ("k" in d) is        *)
(* k \in DOMAIN d.  A value returned by a method is wrapped by its Python  *)
(* type: [doc |-> d], [list |-> l], [bool |-> b] or [none |-> TRUE].        *)
(***************************************************************************)
EXTENDS Integers, Sequences, FiniteSets, TLC

\* ------------------------------------------------------------------ bounds
\* Number of servers named in the configuration file (mcp_servers).
NumServers == 2
\* Number of concurrently running request handlers (asyncio tasks).
NumCallers == 2
\* Longest streamed body (in lines) the decoder is checked on.
MaxFrames == 3
\* Longest streamed body (in lines) a provider sends in the protocol model.
MaxStream == 2
\* Number of clock advances.
MaxTicks == 2
\* Number of WebSocket connections opened.
NumSockets == 2
\* Number of chat messages handled.
MaxMessages == 102
\* Longest server or tool name, in characters.
MaxName == 2

\* Default freshness window of a tool listing, in time units.
FreshnessWindow == 300

\* ------------------------------------------------------- JSON documents
\* Result documents a provider may put under "result"; the last one has a key
\* named error of its own.
ResultDocs == { [tools |-> <<>>], [tools |-> <<"t1">>], [content |-> "ok"],
                [error |-> [code |-> "r1"]] }

\* Error documents a provider may put under "error".
ErrDocs == { [code |-> "e1"] }

\* A JSON object with neither key (a notification, a progress event).
NoteDoc == [method |-> "notifications/progress"]

\* JSON values that are not objects: a number (a Python "in" test on it
\* raises TypeError) and a string holding neither word (the test is False).
JsonNum == [jsonnum |-> TRUE]
JsonStr == [jsonstr |-> TRUE]

\* The JSON objects a provider may send as one response document.
Envelopes ==
  {NoteDoc}
  \cup {[result |-> r] : r \in ResultDocs}
  \cup {[error |-> e] : e \in ErrDocs}
  \cup {[result |-> r, error |-> e] : r \in ResultDocs, e \in ErrDocs}

JsonValues == Envelopes \cup {JsonNum, JsonStr}

\* Python: "k" in v raises TypeError for a number.
InRaises(v) == "jsonnum" \in DOMAIN v

\* Python: "k" in v, for an object or a string without the word.
Has(v, k) == /\ "jsonnum" \notin DOMAIN v
             /\ "jsonstr" \notin DOMAIN v
             /\ k \in DOMAIN v

\* ------------------------------------------------- error values (dicts)
\* {"error": f"Ошибка подключения к {self.name}: {str(e)}"}
ConnError(s) == [error |-> [msg |-> "connect", server |-> s]]
\* {"error": f"HTTP {response.status_code}: {response.text}"}
HttpError(code) == [error |-> [msg |-> "http", status |-> code]]
\* {"error": "Нет данных в SSE потоке"}
SseEmptyError == [error |-> [msg |-> "sse_no_data"]]
\* {"error": f"Ошибка обработки SSE: {str(e)}"}
SseProcError == [error |-> [msg |-> "sse_processing"]]
\* {"error": f"MCP сервер {server_name} не найден"}
NotFoundError(s) == [error |-> [msg |-> "not_found", server |-> s]]

\* ------------------------------------------------------ streamed bodies
\* One line of a text/event-stream body, by what the parse loop does with it:
\*   other  : does not start with "data: " (empty line, "event:", comment)
\*   blank  : "data: " followed by white space only
\*   bad    : "data: " followed by text json.loads rejects
\*   json   : "data: " followed by a JSON value
StreamLines ==
  {[k |-> "other"], [k |-> "blank"], [k |-> "bad"]}
  \cup {[k |-> "json", v |-> v] : v \in JsonValues}

\* All sequences over S of length at most n.
SeqsUpTo(S, n) == UNION {[1..m -> S] : m \in 0..n}

\* A streamed body: readable = FALSE when aread() fails or the bytes are not
\* UTF-8 (content.decode raises).
Bodies(n) ==
  {[readable |-> TRUE, lines |-> l] : l \in SeqsUpTo(StreamLines, n)}
  \cup {[readable |-> FALSE, lines |-> <<>>]}

\* for line in text_content.split('\n'): the lines whose payload is appended
\* to events (data lines, non-blank, accepted by json.loads).
IsEventLine(line) == line.k = "json"

\* Mutant: a payload json.loads rejects ends the loop (break, not continue).
ParseEventsStopAtBad(lines) ==
  LET bad == {i \in 1..Len(lines) : lines[i].k = "bad"}
      stop == IF bad = {} THEN Len(lines) + 1
              ELSE CHOOSE i \in bad : \A j \in bad : i <= j
      kept == SelectSeq(SubSeq(lines, 1, stop - 1), IsEventLine)
  IN  [i \in 1..Len(kept) |-> kept[i].v]

ParseEvents(lines) ==
  LET kept == SelectSeq(lines, IsEventLine)
  IN  [i \in 1..Len(kept) |-> kept[i].v]

\* Mutant: the first event decides, not the last.
EventsOutcomeFirst(events) ==
  LET first == events[1]
  IN  IF InRaises(first) THEN SseProcError
      ELSE IF Has(first, "result") THEN first.result
      ELSE IF Has(first, "error") THEN [error |-> first.error]
      ELSE [events |-> events]

\* _process_sse_response, from the events parsed: last_event = events[-1] and
\* the three-way test on it; a TypeError is caught by the except clause.
EventsOutcome(events) ==
  LET last == events[Len(events)]
  IN  IF InRaises(last) THEN SseProcError
      ELSE IF Has(last, "result") THEN last.result
      ELSE IF Has(last, "error") THEN [error |-> last.error]
      ELSE [events |-> events]

ProcessSse(body) ==
  IF ~body.readable THEN SseProcError
  ELSE LET events == ParseEvents(body.lines)
       IN  IF events # <<>> THEN EventsOutcome(events) ELSE SseEmptyError

\* ------------------------------------------------------- HTTP exchange
VARIABLES
  enabled,   \* config: server name -> its "enabled" flag (config.get_mcp_config())
  idx,       \* MCPManager._initialize_clients: next config item of the loop
  clients,   \* MCPManager.clients: the names that have an MCPClient
  built,     \* number of MCPClient objects the manager constructed per name
  task,      \* per request handler: the operation it runs and where it is
  now,       \* wall clock
  prev,      \* the last call whose value the caller took (where one is kept)
  sse_in,    \* decoder check: the streamed body given to _process_sse_response
  sse_out,   \* decoder check: what it returned
  chat_history,        \* main.chat_history: the entries, by message number
  stored,              \* number of chat entries appended so far
  active_connections,  \* ConnectionManager.active_connections
  ws,        \* per WebSocket: where its /ws handler is and how it ended
  route      \* a tool offered to the LLM and the call routed back from it

mcpvars == <<enabled, idx, clients, built, task, now, prev, sse_in, sse_out>>
webvars == <<chat_history, stored, active_connections, ws, route>>
vars == <<mcpvars, webvars>>

\* Names in the configuration; name 0 is in no configuration.
Servers == 1..NumServers
Names == 0..NumServers
Callers == 1..NumCallers

Tools == {"t1", "t2"}
ArgsIn == {"None", "a1"}

\* arguments or {}
ArgsOrEmpty(a) == IF a = "None" THEN "{}" ELSE a

\* What a provider (or the network) may answer to a POST: an exception of the
\* HTTP library (connection refused, timeout), a status other than 200, or
\* status 200 with a plain body or a text/event-stream body.
PlainBodies == {[ok |-> FALSE]} \cup {[ok |-> TRUE, v |-> v] : v \in JsonValues}

PostResponses ==
  {[k |-> "exc"]}
  \cup {[k |-> "status", code |-> c] : c \in {406, 500}}
  \cup {[k |-> "plain", body |-> b] : b \in PlainBodies}
  \cup {[k |-> "sse", body |-> b] : b \in Bodies(MaxStream)}

\* What may answer a GET probe.
GetResponses ==
  {[k |-> "exc"]} \cup {[k |-> "status", code |-> c] : c \in {200, 500}}

\* client.post(f"{self.url}/", json=request_data, headers=headers)
PostReq(s, method, stream, tool, args) ==
  [server |-> s, verb |-> "POST", path |-> "/", method |-> method,
   stream |-> stream, tool |-> tool, args |-> args]

\* client.get(f"{self.url}/health"), client.get(f"{self.url}/")
GetReq(s, path) ==
  [server |-> s, verb |-> "GET", path |-> path, method |-> "",
   stream |-> FALSE, tool |-> "", args |-> ""]

\* Wrapped return values.
RetDoc(d) == [doc |-> d]
RetList(l) == [list |-> l]
RetBool(b) == [bool |-> b]
RetNone == [none |-> TRUE]
\* The empty dict {}.
EmptyDoc == [empty |-> TRUE]

\* ------------------------------------------- MCPClient: decoding answers
\* What a method does with the answer to its request: return a value, or go
\* on to its *_fallback method.
Return(val) == [go |-> "ret", val |-> val]
Fallback == [go |-> "fallback"]

\* Mutant: the error key is tested before the result key.
PlainCallValueErrorFirst(s, body) ==
  IF ~body.ok \/ InRaises(body.v) THEN ConnError(s)
  ELSE IF Has(body.v, "error") THEN [error |-> body.v.error]
  ELSE IF Has(body.v, "result") THEN body.v.result
  ELSE body.v

\* call_tool / call_tool_fallback: result = response.json() and the three-way
\* test on it; an exception (json() fails, "in" on a number) is caught by the
\* method's except clause.
PlainCallValue(s, body) ==
  IF ~body.ok \/ InRaises(body.v) THEN ConnError(s)
  ELSE IF Has(body.v, "result") THEN body.v.result
  ELSE IF Has(body.v, "error") THEN [error |-> body.v.error]
  ELSE body.v

\* Mutant: every status other than 200 leads to the fallback request.
CallToolAnswerRetry(s, resp) ==
  CASE resp.k = "exc" -> Return(RetDoc(ConnError(s)))
    [] resp.k = "sse" -> Return(RetDoc(ProcessSse(resp.body)))
    [] resp.k = "plain" -> Return(RetDoc(PlainCallValue(s, resp.body)))
    [] resp.k = "status" -> Fallback

\* MCPClient.call_tool, from the answer to its POST
CallToolAnswer(s, resp) ==
  CASE resp.k = "exc" -> Return(RetDoc(ConnError(s)))
    [] resp.k = "sse" -> Return(RetDoc(ProcessSse(resp.body)))
    [] resp.k = "plain" -> Return(RetDoc(PlainCallValue(s, resp.body)))
    [] resp.k = "status" ->
         IF resp.code = 406 THEN Fallback
         ELSE Return(RetDoc(HttpError(resp.code)))

\* MCPClient.call_tool_fallback, from the answer to its POST. It reads every
\* 200 body with response.json(): an event-stream body is not JSON.
CallToolFallbackAnswer(s, resp) ==
  CASE resp.k = "exc" -> RetDoc(ConnError(s))
    [] resp.k = "sse" -> RetDoc(ConnError(s))
    [] resp.k = "plain" -> RetDoc(PlainCallValue(s, resp.body))
    [] resp.k = "status" -> RetDoc(HttpError(resp.code))

\* list_tools / list_tools_fallback: "result" in result and "tools" in
\* result["result"]
PlainToolsValue(body) ==
  IF body.ok /\ ~InRaises(body.v) /\ Has(body.v, "result")
     /\ "tools" \in DOMAIN body.v.result
  THEN body.v.result.tools
  ELSE <<>>

\* list_tools, streamed answer: "tools" in result
SseToolsValue(body) ==
  LET result == ProcessSse(body)
  IN  IF "tools" \in DOMAIN result THEN result.tools ELSE <<>>

\* Mutant: a connection failure is reported as an error value.
ListToolsAnswerReporting(resp) ==
  CASE resp.k = "exc" -> Return(RetDoc(ConnError(0)))
    [] resp.k = "sse" -> Return(RetList(SseToolsValue(resp.body)))
    [] resp.k = "plain" -> Return(RetList(PlainToolsValue(resp.body)))
    [] resp.k = "status" ->
         IF resp.code = 406 THEN Fallback ELSE Return(RetList(<<>>))

\* MCPClient.list_tools, from the answer to its POST
ListToolsAnswer(resp) ==
  CASE resp.k = "exc" -> Return(RetList(<<>>))
    [] resp.k = "sse" -> Return(RetList(SseToolsValue(resp.body)))
    [] resp.k = "plain" -> Return(RetList(PlainToolsValue(resp.body)))
    [] resp.k = "status" ->
         IF resp.code = 406 THEN Fallback ELSE Return(RetList(<<>>))

\* MCPClient.list_tools_fallback, from the answer to its POST
ListToolsFallbackAnswer(resp) ==
  IF resp.k = "plain" THEN RetList(PlainToolsValue(resp.body))
  ELSE RetList(<<>>)

\* get_server_info / get_server_info_fallback: "result" in result
PlainInfoValue(body) ==
  IF body.ok /\ ~InRaises(body.v) /\ Has(body.v, "result")
  THEN body.v.result
  ELSE EmptyDoc

\* Mutant: a connection failure is reported as call_tool reports it.
GetServerInfoAnswerError(resp) ==
  CASE resp.k = "exc" -> Return(RetDoc(ConnError(0)))
    [] resp.k = "sse" -> Return(RetDoc(ProcessSse(resp.body)))
    [] resp.k = "plain" -> Return(RetDoc(PlainInfoValue(resp.body)))
    [] resp.k = "status" ->
         IF resp.code = 406 THEN Fallback ELSE Return(RetDoc(EmptyDoc))

\* MCPClient.get_server_info, from the answer to its POST
GetServerInfoAnswer(resp) ==
  CASE resp.k = "exc" -> Return(RetDoc(EmptyDoc))
    [] resp.k = "sse" -> Return(RetDoc(ProcessSse(resp.body)))
    [] resp.k = "plain" -> Return(RetDoc(PlainInfoValue(resp.body)))
    [] resp.k = "status" ->
         IF resp.code = 406 THEN Fallback ELSE Return(RetDoc(EmptyDoc))

\* MCPClient.get_server_info_fallback, from the answer to its POST
GetServerInfoFallbackAnswer(resp) ==
  IF resp.k = "plain" THEN RetDoc(PlainInfoValue(resp.body))
  ELSE RetDoc(EmptyDoc)

\* MCPClient.is_available, from the answer to GET /health: an exception goes
\* on to the probe of the root address, a status decides.
HealthAnswer(resp) ==
  IF resp.k = "exc" THEN Fallback
  ELSE Return(RetBool(resp.code = 200))

\* Mutant: the root probe counts as passed even when it got no answer.
RootAnswerTrue(resp) == RetBool(TRUE)

\* MCPClient.is_available, from the answer to GET /
RootAnswer(resp) == RetBool(resp.k # "exc")

\* ------------------------------------------------------------- requests
\* The client method an operation runs on a server.
Kind(op) ==
  CASE op \in {"call_tool", "c_call_tool"} -> "call"
    [] op \in {"list_server_tools", "get_all_tools"} -> "list"
    [] op = "get_server_info" -> "info"
    [] op \in {"c_is_available", "get_available_servers"} -> "avail"

\* request_data and headers of call_tool: Accept: text/event-stream
CallToolReq(s, tool, args) ==
  PostReq(s, "tools/call", TRUE, tool, ArgsOrEmpty(args))

\* Mutant: the fallback request loses the caller's arguments.
CallToolFallbackReqNoArgs(s, tool, args) ==
  PostReq(s, "tools/call", FALSE, tool, "{}")

\* request_data and headers of call_tool_fallback: Content-Type only
CallToolFallbackReq(s, tool, args) ==
  PostReq(s, "tools/call", FALSE, tool, ArgsOrEmpty(args))

\* The first request of each client method.
FirstReq(kind, s, tool, args) ==
  CASE kind = "call" -> CallToolReq(s, tool, args)
    [] kind = "list" -> PostReq(s, "tools/list", TRUE, "", "")
    [] kind = "info" -> PostReq(s, "initialize", TRUE, "", "")
    [] kind = "avail" -> GetReq(s, "/health")

\* The request of each *_fallback method, and the second probe of is_available.
SecondReq(kind, s, tool, args) ==
  CASE kind = "call" -> CallToolFallbackReq(s, tool, args)
    [] kind = "list" -> PostReq(s, "tools/list", FALSE, "", "")
    [] kind = "info" -> PostReq(s, "initialize", FALSE, "", "")
    [] kind = "avail" -> GetReq(s, "/")

\* if not self.enabled: return False (is_available) / return None
DisabledValue(kind) == IF kind = "avail" THEN RetBool(FALSE) ELSE RetNone

FirstAnswer(kind, s, resp) ==
  CASE kind = "call" -> CallToolAnswer(s, resp)
    [] kind = "list" -> ListToolsAnswer(resp)
    [] kind = "info" -> GetServerInfoAnswer(resp)
    [] kind = "avail" -> HealthAnswer(resp)

SecondAnswer(kind, s, resp) ==
  CASE kind = "call" -> CallToolFallbackAnswer(s, resp)
    [] kind = "list" -> ListToolsFallbackAnswer(resp)
    [] kind = "info" -> GetServerInfoFallbackAnswer(resp)
    [] kind = "avail" -> RootAnswer(resp)

\* ---------------------------------------------------------------- tasks
\* A handler's task: the operation and its arguments; where it is (pc); the
\* client it is on (server) and the clients still to visit (rest); the
\* requests the current client method has sent (reqs) and the answers it got
\* (got); the value collected so far (acc) and the value returned (ret).
IdleTask ==
  [op |-> "idle", pc |-> "idle", server |-> 0, tool |-> "", args |-> "",
   reqs |-> <<>>, got |-> <<>>, ret |-> RetNone, rest |-> <<>>,
   acc |-> <<>>, t0 |-> 0, t1 |-> 0]

\* The names of a set of servers in the order of the configuration file
\* (a dict iterates in insertion order).
RECURSIVE InOrder(_)
InOrder(S) ==
  IF S = {} THEN <<>>
  ELSE LET m == CHOOSE x \in S : \A y \in S : x <= y
       IN  <<m>> \o InOrder(S \ {m})

\* Mutant: a server is entered in the map whatever its list (if tools is not
\* None).
AllToolsAddAlways(acc, s, val) ==
  IF "list" \in DOMAIN val THEN Append(acc, <<s, val.list>>) ELSE acc

\* Mutant: a server without tools discards what was collected before it.
AllToolsAddReset(acc, s, val) ==
  IF "list" \in DOMAIN val /\ val.list # <<>>
  THEN Append(acc, <<s, val.list>>)
  ELSE <<>>

\* if tools: all_tools[server_name] = tools
AllToolsAdd(acc, s, val) ==
  IF "list" \in DOMAIN val /\ val.list # <<>>
  THEN Append(acc, <<s, val.list>>)
  ELSE acc

\* if await client.is_available(): available.append(name)
AvailableAdd(acc, s, val) == IF val.bool THEN Append(acc, s) ELSE acc

\* Mutant: the requests to all the clients are sent before any answer is awaited
\* (a gather over the clients).
FanOutAll(t, pending) ==
  IF pending = <<>>
  THEN [t EXCEPT !.pc = "done", !.rest = <<>>,
                 !.ret = IF t.op = "get_all_tools" THEN [map |-> t.acc]
                         ELSE [list |-> t.acc]]
  ELSE [t EXCEPT !.pc = "wait_first", !.server = Head(pending),
                 !.rest = Tail(pending), !.got = <<>>,
                 !.reqs = [i \in 1..Len(pending) |->
                             FirstReq(Kind(t.op), pending[i], "", "")]]

\* The loop of get_all_tools / get_available_servers over the clients still
\* to visit: a client method that returns without a request lets the loop go
\* on at once; the first request sent suspends the task.
RECURSIVE FanOut(_, _)
FanOut(t, pending) ==
  IF pending = <<>>
  THEN [t EXCEPT !.pc = "done", !.rest = <<>>,
                 !.ret = IF t.op = "get_all_tools" THEN [map |-> t.acc]
                         ELSE RetList(t.acc)]
  ELSE LET s == Head(pending)
       IN  IF ~enabled[s]
           THEN FanOut([t EXCEPT !.acc =
                          IF t.op = "get_all_tools"
                          THEN AllToolsAdd(@, s, DisabledValue("list"))
                          ELSE AvailableAdd(@, s, DisabledValue("avail"))],
                       Tail(pending))
           ELSE [t EXCEPT !.pc = "wait_first", !.server = s,
                          !.rest = Tail(pending), !.got = <<>>,
                          !.reqs = <<FirstReq(Kind(t.op), s, "", "")>>]

\* Mutant: the method sends its request without the enabled test.
ClientStartUnchecked(t) ==
  [t EXCEPT !.pc = "wait_first",
            !.reqs = Append(@, FirstReq(Kind(t.op), t.server, t.tool, t.args))]

\* Mutant: a listing made within the freshness window of the handler's last
\* listing of the same server is answered from that listing, with no request.
ClientStartCached(t) ==
  IF ~enabled[t.server]
  THEN [t EXCEPT !.pc = "done", !.ret = DisabledValue(Kind(t.op))]
  ELSE IF /\ t.op = "list_server_tools"
          /\ prev.op = "list_server_tools"
          /\ prev.server = t.server
          /\ t.t0 - prev.t1 < FreshnessWindow
       THEN [t EXCEPT !.pc = "done", !.ret = prev.ret]
       ELSE [t EXCEPT !.pc = "wait_first",
                      !.reqs = Append(@, FirstReq(Kind(t.op), t.server,
                                                  t.tool, t.args))]

\* Mutant: once a handshake has given a capability document, get_server_info
\* returns that document without a request.
ClientStartInfoCached(t) ==
  IF ~enabled[t.server]
  THEN [t EXCEPT !.pc = "done", !.ret = DisabledValue(Kind(t.op))]
  ELSE IF /\ t.op = "get_server_info"
          /\ prev.op = "get_server_info"
          /\ prev.server = t.server
          /\ prev.ret = RetDoc([content |-> "ok"])
       THEN [t EXCEPT !.pc = "done", !.ret = prev.ret]
       ELSE [t EXCEPT !.pc = "wait_first",
                      !.reqs = Append(@, FirstReq(Kind(t.op), t.server,
                                                  t.tool, t.args))]

\* A client method begins: the enabled test, then its first request.
ClientStart(t) ==
  IF ~enabled[t.server]
  THEN [t EXCEPT !.pc = "done", !.ret = DisabledValue(Kind(t.op))]
  ELSE [t EXCEPT !.pc = "wait_first",
                 !.reqs = Append(@, FirstReq(Kind(t.op), t.server, t.tool, t.args))]

\* A client method has returned val to the operation that awaited it.
Continue(t, val) ==
  CASE t.op = "get_all_tools" ->
         FanOut([t EXCEPT !.acc = AllToolsAdd(@, t.server, val)], t.rest)
    [] t.op = "get_available_servers" ->
         FanOut([t EXCEPT !.acc = AvailableAdd(@, t.server, val)], t.rest)
    [] OTHER -> [t EXCEPT !.pc = "done", !.ret = val]

\* The time a task returned.
Stamp(t) == IF t.pc = "done" THEN [t EXCEPT !.t1 = now] ELSE t

\* ----------------------------------------------------------- MCPManager
\* Mutant: a client is built for every configured name.
BuildsClientAll(s) == TRUE

\* if server_config.get("enabled", False): a client is built for the name
BuildsClient(s) == enabled[s]

\* Mutant: handlers reach the manager while its constructor still runs.
ManagerReadyEarly == TRUE

\* mcp_manager = MCPManager(): the module-level name is bound, and request
\* handlers can use it, once __init__ has returned.
ManagerReady == idx > NumServers

\* One iteration of the loop of _initialize_clients.
Construct ==
  /\ idx <= NumServers
  /\ idx' = idx + 1
  /\ IF BuildsClient(idx)
     THEN /\ clients' = clients \cup {idx}
          /\ built' = [built EXCEPT ![idx] = @ + 1]
     ELSE UNCHANGED <<clients, built>>
  /\ UNCHANGED <<enabled, task, now, prev, sse_in, sse_out, webvars>>

NewTask(op, s, tool, args) ==
  [IdleTask EXCEPT !.op = op, !.server = s, !.tool = tool, !.args = args,
                   !.t0 = now]

\* Mutant: an unknown name gives an empty answer for every method.
NotInClientsEmpty(op, s) ==
  IF op = "list_server_tools" THEN RetList(<<>>) ELSE RetDoc(EmptyDoc)

\* Mutant: an unknown name gives the "not found" error for every method.
NotInClientsError(op, s) == RetDoc(NotFoundError(s))

\* What each manager method returns for a name that is not in self.clients.
NotInClientsValue(op, s) ==
  CASE op = "call_tool" -> RetDoc(NotFoundError(s))
    [] op = "list_server_tools" -> RetList(<<>>)
    [] op = "get_server_info" -> RetDoc(EmptyDoc)

\* call_tool, list_server_tools, get_server_info of the manager: the
\* membership test, then the client's method.
ManagerStart(t) ==
  IF t.server \notin clients
  THEN [t EXCEPT !.pc = "done", !.ret = NotInClientsValue(t.op, t.server)]
  ELSE ClientStart(t)

Begin(c, t) ==
  /\ ManagerReady
  /\ task[c].pc = "idle"
  /\ task' = [task EXCEPT ![c] = Stamp(t)]
  /\ UNCHANGED <<enabled, idx, clients, built, now, prev, sse_in, sse_out, webvars>>

\* MCPManager.call_tool(server_name, tool_name, arguments)
MgrCallTool(c, T, A) ==
  \E s \in Names, tool \in T, args \in A :
    Begin(c, ManagerStart(NewTask("call_tool", s, tool, args)))

\* MCPManager.list_server_tools(server_name)
MgrListServerTools(c) ==
  \E s \in Names : Begin(c, ManagerStart(NewTask("list_server_tools", s, "", "")))

\* MCPManager.get_server_info(server_name)
MgrGetServerInfo(c) ==
  \E s \in Names : Begin(c, ManagerStart(NewTask("get_server_info", s, "", "")))

\* MCPManager.get_all_tools()
MgrGetAllTools(c) ==
  Begin(c, FanOut(NewTask("get_all_tools", 0, "", ""), InOrder(clients)))

\* MCPManager.get_available_servers()
MgrGetAvailableServers(c) ==
  Begin(c, FanOut(NewTask("get_available_servers", 0, "", ""), InOrder(clients)))

\* MCPClient(name, config[name]).is_available(), on any configured name
ClientIsAvailable(c) ==
  \E s \in Servers : Begin(c, ClientStart(NewTask("c_is_available", s, "", "")))

\* MCPClient(name, config[name]).call_tool(tool_name, arguments)
ClientCallTool(c, T, A) ==
  \E s \in Servers, tool \in T, args \in A :
    Begin(c, ClientStart(NewTask("c_call_tool", s, tool, args)))

\* Every answer the network may give.
AnyAnswer == [post |-> PostResponses, get |-> GetResponses]

\* The answers the network may give to the request a task waits on, out of R.
AnswersTo(t, R) == IF Kind(t.op) = "avail" THEN R.get ELSE R.post

\* The answer to the first request of a client method arrives.
AnswerFirst(c, R) ==
  /\ task[c].pc = "wait_first"
  /\ \E resp \in AnswersTo(task[c], R) :
       LET t == task[c]
           a == FirstAnswer(Kind(t.op), t.server, resp)
       IN  task' = [task EXCEPT ![c] =
             Stamp(IF a.go = "fallback"
                   THEN [t EXCEPT !.pc = "wait_second", !.got = Append(@, resp),
                           !.reqs = Append(@, SecondReq(Kind(t.op), t.server,
                                                        t.tool, t.args))]
                   ELSE Continue([t EXCEPT !.got = Append(@, resp)], a.val))]
  /\ UNCHANGED <<enabled, idx, clients, built, now, prev, sse_in, sse_out, webvars>>

\* The answer to the request of a *_fallback method (or to the second probe of
\* is_available) arrives.
AnswerSecond(c, R) ==
  /\ task[c].pc = "wait_second"
  /\ \E resp \in AnswersTo(task[c], R) :
       LET t == task[c]
       IN  task' = [task EXCEPT ![c] =
             Stamp(Continue([t EXCEPT !.got = Append(@, resp)],
                            SecondAnswer(Kind(t.op), t.server, resp)))]
  /\ UNCHANGED <<enabled, idx, clients, built, now, prev, sse_in, sse_out, webvars>>

\* Mutant: a client whose call ended in an error value is dropped from the map.
FinishEvict(c) ==
  /\ task[c].pc = "done"
  /\ task' = [task EXCEPT ![c] = IdleTask]
  /\ clients' = IF "doc" \in DOMAIN task[c].ret
                    /\ "error" \in DOMAIN task[c].ret.doc
                 THEN clients \ {task[c].server} ELSE clients
  /\ UNCHANGED <<enabled, idx, built, now, prev, sse_in, sse_out, webvars>>

\* The caller has taken the returned value; the handler is free again.
Finish(c) ==
  /\ task[c].pc = "done"
  /\ task' = [task EXCEPT ![c] = IdleTask]
  /\ UNCHANGED <<enabled, idx, clients, built, now, prev, sse_in, sse_out, webvars>>

\* The caller has taken the returned value, which is kept for comparison with
\* the handler's next call.
FinishKept(c) ==
  /\ task[c].pc = "done"
  /\ task' = [task EXCEPT ![c] = IdleTask]
  /\ prev' = task[c]
  /\ UNCHANGED <<enabled, idx, clients, built, now, sse_in, sse_out, webvars>>

\* Number of clock advances that led to time n.
TicksUsed(n) ==
  (n \div (FreshnessWindow - 1)) + (n % (FreshnessWindow - 1))

\* Time passes: one unit, or one unit less than a freshness window.
Tick ==
  /\ TicksUsed(now) < MaxTicks
  /\ \E d \in {1, FreshnessWindow - 1} : now' = now + d
  /\ UNCHANGED <<enabled, idx, clients, built, task, prev, sse_in, sse_out, webvars>>

NoDecode == [pending |-> TRUE]

\* ------------------------------------------------------ the chat service
\* if len(chat_history) > 100
HistoryLimit == 100

\* The WebSocket objects of the connections made to /ws.
Sockets == 1..NumSockets

\* A socket no client has connected yet, and no tool offered yet.
WsIdle == [pc |-> "none", err |-> ""]
NoRoute == [pc |-> "none"]

\* chat_history = [], ConnectionManager.__init__
WebInit ==
  /\ chat_history = <<>>
  /\ stored = 0
  /\ active_connections = <<>>
  /\ ws = [w \in Sockets |-> WsIdle]
  /\ route = NoRoute

Init ==
  /\ enabled \in [Servers -> BOOLEAN]
  /\ idx = 1
  /\ clients = {}
  /\ built = [s \in Servers |-> 0]
  /\ task = [c \in Callers |-> IdleTask]
  /\ now = 0
  /\ prev = IdleTask
  /\ sse_in = [readable |-> FALSE, lines |-> <<>>]
  /\ sse_out = NoDecode
  /\ WebInit

\* One request handler at a time, every operation, every answer.
Next ==
  \/ Construct
  \/ MgrCallTool(1, Tools, ArgsIn)
  \/ MgrListServerTools(1)
  \/ MgrGetServerInfo(1)
  \/ MgrGetAllTools(1)
  \/ MgrGetAvailableServers(1)
  \/ ClientIsAvailable(1)
  \/ ClientCallTool(1, Tools, ArgsIn)
  \/ AnswerFirst(1, AnyAnswer)
  \/ AnswerSecond(1, AnyAnswer)
  \/ Finish(1)

Spec == Init /\ [][Next]_vars

\* ------------------------------------------------ tool listings over time
\* A provider that answers a listing, refuses streaming, or does not answer.
TimedAnswer ==
  [post |-> { [k |-> "exc"], [k |-> "status", code |-> 406],
              [k |-> "plain",
               body |-> [ok |-> TRUE, v |-> [result |-> [tools |-> <<"t1">>]]]] },
   get |-> GetResponses]

\* A handler lists the tools of servers, call after call, while the clock
\* advances.
NextTimed ==
  \/ Construct
  \/ Tick
  \/ MgrListServerTools(1)
  \/ AnswerFirst(1, TimedAnswer)
  \/ AnswerSecond(1, TimedAnswer)
  \/ FinishKept(1)

SpecTimed == Init /\ [][NextTimed]_vars

\* ------------------------------------------------- concurrent handlers
\* A network that answers or fails, without the details of the answers.
CoarseAnswer ==
  [post |-> { [k |-> "exc"],
              [k |-> "plain",
               body |-> [ok |-> TRUE, v |-> [result |-> [tools |-> <<"t1">>]]]] },
   get |-> { [k |-> "exc"], [k |-> "status", code |-> 200] }]

\* Handlers run the manager's operations concurrently, from process start.
NextConc ==
  \/ Construct
  \/ \E c \in Callers : MgrCallTool(c, {"t1"}, {"None"})
  \/ \E c \in Callers : MgrListServerTools(c)
  \/ \E c \in Callers : MgrGetServerInfo(c)
  \/ \E c \in Callers : MgrGetAllTools(c)
  \/ \E c \in Callers : MgrGetAvailableServers(c)
  \/ \E c \in Callers : AnswerFirst(c, CoarseAnswer)
  \/ \E c \in Callers : AnswerSecond(c, CoarseAnswer)
  \/ \E c \in Callers : Finish(c)

SpecConc == Init /\ [][NextConc]_vars

\* ------------------------------------------------ handshakes, call after call
\* A provider that answers the handshake with its capability document, plain
\* or streamed, answers without a result, refuses streaming, fails with a
\* status, or does not answer.
InfoAnswer ==
  [post |-> { [k |-> "exc"], [k |-> "status", code |-> 406],
              [k |-> "status", code |-> 500],
              [k |-> "plain",
               body |-> [ok |-> TRUE, v |-> [result |-> [content |-> "ok"]]]],
              [k |-> "plain", body |-> [ok |-> TRUE, v |-> NoteDoc]],
              [k |-> "sse",
               body |-> [readable |-> TRUE,
                         lines |-> <<[k |-> "json",
                                      v |-> [result |-> [content |-> "ok"]]]>>]] },
   get |-> GetResponses]

\* A handler asks for the information of servers, call after call.
NextInfo ==
  \/ Construct
  \/ MgrGetServerInfo(1)
  \/ AnswerFirst(1, InfoAnswer)
  \/ AnswerSecond(1, InfoAnswer)
  \/ FinishKept(1)

SpecInfo == Init /\ [][NextInfo]_vars

\* ------------------------------------------------------- health report
\* What the probe of one enabled server may come to: the server is available,
\* is not (noted as an issue or not), or the check itself fails.
ProbeOutcomes == {"up", "down", "down_noted", "raise"}

\* Mutant: a disabled server is probed like an enabled one.
ServerStatusProbed(s, o) ==
  CASE o = "up" -> "healthy"
    [] o \in {"down", "down_noted"} -> "unavailable"
    [] o = "raise" -> "error"

\* The status reported for one configured server.
ServerStatus(s, o) ==
  IF ~enabled[s] THEN "disabled"
  ELSE CASE o = "up" -> "healthy"
         [] o \in {"down", "down_noted"} -> "unavailable"
         [] o = "raise" -> "error"

\* The check of the server records an issue.
RecordsIssue(s, o) == enabled[s] /\ o \in {"down_noted", "raise"}

\* The overall status, from the per-server statuses and the issues recorded.
OverallStatus(status, issues) ==
  IF issues # <<>> THEN "unhealthy"
  ELSE IF \A s \in DOMAIN status : status[s] # "healthy" THEN "no_servers"
  ELSE "healthy"

\* The report of healthCheck, from the outcome of every probe.
HealthReport(out) ==
  LET status == [s \in Servers |-> ServerStatus(s, out[s])]
      issues == InOrder({s \in Servers : RecordsIssue(s, out[s])})
  IN  [overall |-> OverallStatus(status, issues),
       servers |-> status, issues |-> issues]

\* healthCheck(): every configured server is checked and the report returned.
HealthCheck(c) ==
  \E out \in [Servers -> ProbeOutcomes] :
    Begin(c, [NewTask("health_check", 0, "", "") EXCEPT
                !.pc = "done", !.ret = [health |-> HealthReport(out)]])

NextHealth ==
  \/ Construct
  \/ \E c \in Callers : HealthCheck(c)
  \/ \E c \in Callers : Finish(c)

SpecHealth == Init /\ [][NextHealth]_vars

\* --------------------------------------------- the decoder on its own
\* _process_sse_response applied to every streamed body up to MaxFrames lines.
InitDecode ==
  /\ enabled = [s \in Servers |-> FALSE]
  /\ idx = 1
  /\ clients = {}
  /\ built = [s \in Servers |-> 0]
  /\ task = [c \in Callers |-> IdleTask]
  /\ now = 0
  /\ prev = IdleTask
  /\ sse_in \in Bodies(MaxFrames)
  /\ sse_out = NoDecode
  /\ WebInit

Decode ==
  /\ sse_out = NoDecode
  /\ sse_out' = [val |-> ProcessSse(sse_in)]
  /\ UNCHANGED <<enabled, idx, clients, built, task, now, prev, sse_in, webvars>>

NextDecode == Decode

SpecDecode == InitDecode /\ [][NextDecode]_vars

\* ------------------------------------------------- chat history, /ws
\* x in l
InList(l, x) == \E i \in 1..Len(l) : l[i] = x

\* l.remove(x) for x in l: l without the first x
Remove(l, x) ==
  LET i == CHOOSE k \in 1..Len(l) : l[k] = x /\ \A j \in 1..(k - 1) : l[j] # x
  IN  SubSeq(l, 1, i - 1) \o SubSeq(l, i + 1, Len(l))

\* send_message: chat_history.append(chat_entry), then pop(0) if the list is
\* longer than the limit
Capped(h) == IF Len(h) > HistoryLimit THEN Tail(h) ELSE h

\* POST /api/chat: the message is processed and stored.
SendMessage ==
  /\ stored < MaxMessages
  /\ stored' = stored + 1
  /\ chat_history' = Capped(Append(chat_history, stored + 1))
  /\ UNCHANGED <<mcpvars, active_connections, ws, route>>

\* /ws: manager.connect(websocket)
WsConnect(w) ==
  /\ ws[w].pc = "none"
  /\ active_connections' = Append(active_connections, w)
  /\ ws' = [ws EXCEPT ![w] = [pc |-> "receiving", err |-> ""]]
  /\ UNCHANGED <<mcpvars, chat_history, stored, route>>

\* except WebSocketDisconnect: manager.disconnect(websocket); list.remove
\* raises ValueError when the socket is not in the list.
Disconnected(w) ==
  /\ active_connections' = IF InList(active_connections, w)
                           THEN Remove(active_connections, w)
                           ELSE active_connections
  /\ ws' = [ws EXCEPT ![w] =
              [pc |-> "ended",
               err |-> IF InList(active_connections, w) THEN ""
                       ELSE "ValueError"]]

\* The handler ends with an exception other than WebSocketDisconnect.
Raised(w, e) ==
  /\ ws' = [ws EXCEPT ![w] = [pc |-> "ended", err |-> e]]
  /\ UNCHANGED active_connections

\* /ws: receive_text() raises WebSocketDisconnect, the client has gone.
WsClientGone(w) ==
  /\ ws[w].pc = "receiving"
  /\ Disconnected(w)
  /\ UNCHANGED <<mcpvars, chat_history, stored, route>>

\* /ws: the text received is not JSON (json.loads raises), or is JSON without
\* the key "message" (message_data["message"] raises).
WsBadMessage(w) ==
  /\ ws[w].pc = "receiving"
  /\ \E e \in {"JSONDecodeError", "KeyError"} : Raised(w, e)
  /\ UNCHANGED <<mcpvars, chat_history, stored, route>>

\* /ws: a message is processed, stored and answered; send_text succeeds, or
\* fails with WebSocketDisconnect or with another exception.
WsMessage(w) ==
  /\ ws[w].pc = "receiving"
  /\ stored < MaxMessages
  /\ stored' = stored + 1
  /\ chat_history' = Append(chat_history, stored + 1)
  /\ \E sent \in {"ok", "WebSocketDisconnect", "RuntimeError"} :
       CASE sent = "ok" -> UNCHANGED <<ws, active_connections>>
         [] sent = "WebSocketDisconnect" -> Disconnected(w)
         [] sent = "RuntimeError" -> Raised(w, sent)
  /\ UNCHANGED <<mcpvars, route>>

NextChat ==
  \/ SendMessage
  \/ \E w \in Sockets : WsConnect(w)
  \/ \E w \in Sockets : WsClientGone(w)
  \/ \E w \in Sockets : WsBadMessage(w)
  \/ \E w \in Sockets : WsMessage(w)

SpecChat == Init /\ [][NextChat]_vars

\* ---------------------------------------------------------- tool routing
\* Names are strings over a letter and the underscore.
NameChars == {"a", "_"}
NameStrings == UNION {[1..n -> NameChars] : n \in 1..MaxName}

\* The word 'unknown', as one symbol (it holds no underscore).
Unknown == <<"unknown">>

\* A tool of a listing: the JSON object the provider sent, a dict.
ToolDicts == {[name |-> n] : n \in NameStrings}

\* A managed server (a key of the configuration) and one of its tools.
Offers == {[server |-> s, tool |-> t] : s \in NameStrings, t \in ToolDicts}

\* getattr(tool, 'name', 'unknown'): the attribute of an object; a dict has
\* keys, no such attribute, and gives the default.
GetAttrName(tool) ==
  IF "attrs" \in DOMAIN tool THEN tool.attrs.name ELSE Unknown

\* f"{server_name}_{getattr(tool, 'name', 'unknown')}"
ExposedName(server, tool) == server \o <<"_">> \o GetAttrName(tool)

\* '_' in tool_name
HasUnderscore(n) == \E i \in 1..Len(n) : n[i] = "_"

\* tool_name.split('_', 1)
SplitFirst(n) ==
  LET i == CHOOSE k \in 1..Len(n) : n[k] = "_" /\ \A j \in 1..(k - 1) : n[j] # "_"
  IN  <<SubSeq(n, 1, i - 1), SubSeq(n, i + 1, Len(n))>>

\* The (server_name, actual_tool_name) mcp_manager.call_tool is called with
\* for a tool call of the LLM; no call when the name has no underscore.
Routed(n) == IF HasUnderscore(n) THEN SplitFirst(n) ELSE <<>>

\* Two tools of the catalog are listed.
InitRoute ==
  /\ enabled = [s \in Servers |-> TRUE]
  /\ idx = 1
  /\ clients = {}
  /\ built = [s \in Servers |-> 0]
  /\ task = [c \in Callers |-> IdleTask]
  /\ now = 0
  /\ prev = IdleTask
  /\ sse_in = [readable |-> FALSE, lines |-> <<>>]
  /\ sse_out = NoDecode
  /\ chat_history = <<>>
  /\ stored = 0
  /\ active_connections = <<>>
  /\ ws = [w \in Sockets |-> WsIdle]
  /\ route \in {[pc |-> "listed", offers |-> <<a, b>>, names |-> <<>>,
                 calls |-> <<>>] : a, b \in Offers}

\* generate_response: the tools are offered to the LLM under their function
\* names.
Offer ==
  /\ route.pc = "listed"
  /\ route' = [route EXCEPT
                 !.pc = "offered",
                 !.names = [i \in 1..Len(route.offers) |->
                              ExposedName(route.offers[i].server,
                                          route.offers[i].tool)]]
  /\ UNCHANGED <<mcpvars, chat_history, stored, active_connections, ws>>

\* generate_response: the LLM asks for the tools by the names it was given;
\* each name is split and the call routed.
Dispatch ==
  /\ route.pc = "offered"
  /\ route' = [route EXCEPT
                 !.pc = "routed",
                 !.calls = [i \in 1..Len(route.names) |-> Routed(route.names[i])]]
  /\ UNCHANGED <<mcpvars, chat_history, stored, active_connections, ws>>

NextRoute ==
  \/ Offer
  \/ Dispatch

SpecRoute == InitRoute /\ [][NextRoute]_vars

\* ================================================================ claims
NotAcceptable == [k |-> "status", code |-> 406]

CallOps == {"call_tool", "c_call_tool"}
ManagerOps == {"call_tool", "list_server_tools", "get_server_info",
               "get_all_tools", "get_available_servers"}

\* The value is a dict with the key "error".
IsErrorValue(ret) == "doc" \in DOMAIN ret /\ "error" \in DOMAIN ret.doc

\* C1: is_available() on a client whose descriptor is disabled returns False
\* and sends no HTTP request (neither GET /health nor GET /); the probes that
\* get_available_servers sends go to enabled servers only.
C1_DisabledIsUnavailable ==
  \A c \in Callers :
    LET t == task[c]
    IN  /\ (t.op = "c_is_available" /\ t.pc # "idle" /\ ~enabled[t.server])
             => /\ t.pc = "done"
                /\ t.ret = RetBool(FALSE)
                /\ t.reqs = <<>>
        /\ t.op \in {"c_is_available", "get_available_servers"}
             => \A i \in 1..Len(t.reqs) : enabled[t.reqs[i].server]

C1_Witness ==
  \E c \in Callers :
    /\ task[c].op = "c_is_available"
    /\ ~enabled[task[c].server]
    /\ task[c].pc = "done"

\* C2: MCPManager.call_tool with a server name that is not in the client map
\* returns the "not found" error value for that name and sends no request,
\* whatever the tool name and arguments.
C2_UnknownServerNotFound ==
  \A c \in Callers :
    LET t == task[c]
    IN  (t.op = "call_tool" /\ t.pc # "idle" /\ t.server \notin clients)
          => /\ t.pc = "done"
             /\ IsErrorValue(t.ret)
             /\ t.ret = RetDoc(NotFoundError(t.server))
             /\ t.reqs = <<>>
             /\ t.got = <<>>

C2_Witness ==
  \E c \in Callers :
    /\ task[c].op = "call_tool"
    /\ task[c].server = 0
    /\ task[c].tool = "t2"
    /\ task[c].args = "a1"
    /\ task[c].pc = "done"

\* C3: when the provider answers the streaming tools/call request with 406,
\* the client sends exactly one further request, for the same method, tool
\* name and arguments and without Accept: text/event-stream, and the value
\* returned is the value decoded from the answer to that request.
C3_FallbackOnNotAcceptable ==
  \A c \in Callers :
    LET t == task[c]
        sent(stream) == [server |-> t.server, verb |-> "POST", path |-> "/",
                         method |-> "tools/call", stream |-> stream,
                         tool |-> t.tool,
                         args |-> IF t.args = "None" THEN "{}" ELSE t.args]
    IN  (t.op \in CallOps /\ Len(t.got) >= 1 /\ t.got[1] = NotAcceptable)
          => /\ t.reqs = <<sent(TRUE), sent(FALSE)>>
             /\ t.pc \in {"wait_second", "done"}
             /\ t.pc = "wait_second" => Len(t.got) = 1
             /\ t.pc = "done"
                  => /\ Len(t.got) = 2
                     /\ "doc" \in DOMAIN t.ret
                     /\ t.got[2].k = "exc" => t.ret.doc = ConnError(t.server)
                     /\ t.got[2].k = "status"
                          => t.ret.doc = HttpError(t.got[2].code)
                     /\ (t.got[2].k = "plain" /\ t.got[2].body.ok)
                          => LET v == t.got[2].body.v
                             IN  /\ "result" \in DOMAIN v
                                      => t.ret.doc = v.result
                                 /\ ("error" \in DOMAIN v
                                        /\ "result" \notin DOMAIN v)
                                      => t.ret.doc = [error |-> v.error]
                                 /\ v = NoteDoc => t.ret.doc = v

C3_Witness ==
  \E c \in Callers :
    /\ task[c].op = "call_tool"
    /\ task[c].args = "a1"
    /\ task[c].pc = "done"
    /\ Len(task[c].got) = 2
    /\ task[c].got[1] = NotAcceptable
    /\ task[c].got[2] = [k |-> "plain",
                         body |-> [ok |-> TRUE, v |-> [result |-> [content |-> "ok"]]]]
    /\ task[c].ret = RetDoc([content |-> "ok"])

\* ------------------------------------------------------ streamed bodies
Decoded == sse_out # NoDecode

\* The frames of a body: its data lines with a payload.
IsFrame(line) == line.k \in {"bad", "json"}
Frames(lines) == SelectSeq(lines, IsFrame)

\* A frame that is a JSON object with the key.
Carries(line, key) == line.k = "json" /\ Has(line.v, key)

\* What a frame carrying result or error stands for.
FrameOutcome(line) ==
  IF Carries(line, "result") THEN line.v.result ELSE [error |-> line.v.error]

\* C4: the decoded outcome of a streamed body is taken from the last frame
\* that carries a result or an error key; frames before it, and frames after
\* it that carry neither key, do not change it.
C4_LastCarrierDecides ==
  LET fr == Frames(sse_in.lines)
      carriers == {i \in 1..Len(fr) :
                     Carries(fr[i], "result") \/ Carries(fr[i], "error")}
  IN  (Decoded /\ sse_in.readable /\ carriers # {})
        => LET last == CHOOSE i \in carriers : \A j \in carriers : j <= i
           IN  sse_out.val = FrameOutcome(fr[last])

\* C5: a streamed body of two or more frames whose final frame is a document
\* with a result key decodes to that frame's result document, whatever the
\* earlier frames contain.
C5_FinalResultFrame ==
  LET fr == Frames(sse_in.lines)
  IN  (Decoded /\ sse_in.readable /\ Len(fr) >= 2
         /\ Carries(fr[Len(fr)], "result"))
        => sse_out.val = fr[Len(fr)].v.result

C5_Witness ==
  /\ Decoded
  /\ sse_in = [readable |-> TRUE,
               lines |-> << [k |-> "json", v |-> [error |-> [code |-> "e1"]]],
                            [k |-> "json", v |-> [result |-> [tools |-> <<>>]]] >>]
  /\ sse_out.val = [tools |-> <<>>]

\* The body without the data lines whose payload is not JSON.
IsNotBad(line) == line.k # "bad"
WithoutBad(body) == [body EXCEPT !.lines = SelectSeq(@, IsNotBad)]

\* C6: a malformed frame is skipped and is not fatal: a stream with malformed
\* data frames decodes to what the same stream without them decodes to,
\* wherever the malformed frames stand.
C6_MalformedFrameSkipped ==
  Decoded => sse_out.val = ProcessSse(WithoutBad(sse_in))

C6_Witness ==
  /\ Decoded
  /\ Len(sse_in.lines) = 3
  /\ sse_in.lines[1].k = "bad"
  /\ Carries(sse_in.lines[2], "result")
  /\ sse_in.lines[3].k = "bad"
  /\ sse_out.val = sse_in.lines[2].v.result

\* ------------------------------------------------------------- failures
\* The last answer a finished client method got.
LastAnswer(t) == t.got[Len(t.got)]

\* A response document that reports an error and no result.
ErrorOnly(v) == Has(v, "error") /\ ~Has(v, "result")

\* A probe of is_available failed: no answer, or /health answered a status
\* other than 200.
ProbeFailed(t) ==
  LET a == LastAnswer(t)
  IN  a.k = "exc" \/ (Len(t.got) = 1 /\ a.code # 200)

\* A streamed answer failed, the last frame that carries result or error
\* being the response document: the body cannot be read, holds no JSON frame,
\* or its response document reports an error.
StreamFailed(body) ==
  LET fr == Frames(body.lines)
      json == {i \in 1..Len(fr) : fr[i].k = "json"}
      carriers == {i \in 1..Len(fr) :
                     Carries(fr[i], "result") \/ Carries(fr[i], "error")}
  IN  \/ ~body.readable
      \/ json = {}
      \/ /\ carriers # {}
         /\ ErrorOnly(fr[CHOOSE i \in carriers : \A j \in carriers : j <= i].v)

\* A streamed answer failed, the last JSON frame being the response document.
FinalFrameFailed(body) ==
  LET fr == Frames(body.lines)
      json == {i \in 1..Len(fr) : fr[i].k = "json"}
  IN  \/ ~body.readable
      \/ json = {}
      \/ ErrorOnly(fr[CHOOSE i \in json : \A j \in json : j <= i].v)

\* The POST exchange of a finished client method failed: connection failure
\* or timeout, non-success status, undecodable body (an event stream in answer
\* to the request that asked for none included), failed stream, or an error
\* document. A streamed answer is judged by its last frame that carries
\* result or error ("carrier") or by its last JSON frame ("final").
PostFailed(t, by) ==
  LET a == LastAnswer(t)
  IN  \/ a.k \in {"exc", "status"}
      \/ a.k = "plain" /\ (~a.body.ok \/ ErrorOnly(a.body.v))
      \/ a.k = "sse" /\ Len(t.got) = 2
      \/ a.k = "sse" /\ by = "carrier" /\ StreamFailed(a.body)
      \/ a.k = "sse" /\ by = "final" /\ FinalFrameFailed(a.body)

\* C7: MCPClient.call_tool on an enabled client never raises: whatever the
\* provider does it returns a value, and after a connection failure, a
\* timeout, a non-success status, an undecodable body, a malformed stream or a
\* provider error document the value is a dict with the key "error".
C7_CallToolFailureIsError ==
  \A c \in Callers :
    LET t == task[c]
    IN  (t.op \in CallOps /\ t.pc = "done" /\ t.got # <<>>)
          => /\ "doc" \in DOMAIN t.ret
             /\ PostFailed(t, "carrier") => "error" \in DOMAIN t.ret.doc

\* A finished manager operation met a failure: an unknown server name, or a
\* failed exchange with the (last) provider it asked.
ManagerOpFailed(t, by) ==
  \/ t.op \in {"call_tool", "list_server_tools", "get_server_info"}
       /\ t.server \notin clients
  \/ t.got # <<>> /\ Kind(t.op) = "avail" /\ ProbeFailed(t)
  \/ t.got # <<>> /\ Kind(t.op) # "avail" /\ PostFailed(t, by)

\* C8 as claimed: at every public manager operation a failure is represented
\* as a structured error value in what the caller receives.
C8_EveryFailureIsErrorValue ==
  \A c \in Callers :
    LET t == task[c]
    IN  (t.op \in ManagerOps /\ t.pc = "done"
           /\ ManagerOpFailed(t, "carrier"))
          => IsErrorValue(t.ret)

\* C8 as amended: no manager operation lets a failure escape: each returns a
\* value of its type.  After a failure (the final JSON frame of a stream being
\* its response document) call_tool returns an error value, list_server_tools
\* the empty list, get_server_info the empty dict or an error value,
\* get_all_tools a map without the failing server, get_available_servers a
\* list without it.
C8_FailureValues ==
  \A c \in Callers :
    LET t == task[c]
        failed == ManagerOpFailed(t, "final")
    IN  (t.op \in ManagerOps /\ t.pc = "done")
          => CASE t.op = "call_tool" ->
                    /\ "doc" \in DOMAIN t.ret
                    /\ failed => IsErrorValue(t.ret)
               [] t.op = "list_server_tools" ->
                    /\ "list" \in DOMAIN t.ret
                    /\ failed => t.ret = RetList(<<>>)
               [] t.op = "get_server_info" ->
                    /\ "doc" \in DOMAIN t.ret
                    /\ failed => (t.ret = RetDoc(EmptyDoc) \/ IsErrorValue(t.ret))
               [] t.op = "get_all_tools" ->
                    /\ "map" \in DOMAIN t.ret
                    /\ failed => \A i \in 1..Len(t.ret.map) :
                                    t.ret.map[i][1] # t.server
               [] t.op = "get_available_servers" ->
                    /\ "list" \in DOMAIN t.ret
                    /\ failed => \A i \in 1..Len(t.ret.list) :
                                    t.ret.list[i] # t.server

C8_Witness ==
  \E c \in Callers :
    /\ task[c].op = "list_server_tools"
    /\ task[c].pc = "done"
    /\ task[c].got = <<[k |-> "exc"]>>
    /\ task[c].ret = RetList(<<>>)

\* ------------------------------------------------------------ the cache
Listing(t) == t.op = "list_server_tools" /\ t.server \in clients

\* C9 as claimed: of two list_server_tools calls for the same server made
\* within the freshness window only the first sends a network request; a
\* call made after the window has elapsed sends one; the caller gets a list.
C9_SecondListingIsCached ==
  LET t == task[1]
  IN  (Listing(t) /\ t.pc = "done" /\ Listing(prev) /\ prev.server = t.server
         /\ prev.ret = RetList(<<"t1">>) /\ Len(prev.reqs) = 1)
        => /\ t.t0 - prev.t0 < FreshnessWindow => t.reqs = <<>>
           /\ t.t0 - prev.t1 >= FreshnessWindow => Len(t.reqs) >= 1
           /\ "list" \in DOMAIN t.ret

\* C9 as amended: every list_server_tools call for a managed server sends its
\* own streaming tools/list request, whether or not an earlier call for that
\* server was made within the freshness window, so two calls send at least
\* two requests; the caller always gets a list, never an error.
C9_EveryListingFetches ==
  LET t == task[1]
      asked(u) == /\ Len(u.reqs) >= 1
                  /\ u.reqs[1] = [server |-> u.server, verb |-> "POST",
                                  path |-> "/", method |-> "tools/list",
                                  stream |-> TRUE, tool |-> "", args |-> ""]
  IN  /\ (Listing(t) /\ t.pc # "idle") => asked(t)
      /\ (Listing(t) /\ t.pc = "done") => "list" \in DOMAIN t.ret
      /\ Listing(prev) => (asked(prev) /\ "list" \in DOMAIN prev.ret)
      /\ (Listing(t) /\ t.pc = "done" /\ Listing(prev) /\ prev.server = t.server)
           => Len(prev.reqs) + Len(t.reqs) >= 2

C9_Witness ==
  LET t == task[1]
  IN  /\ Listing(t) /\ t.pc = "done" /\ Listing(prev) /\ prev.server = t.server
      /\ prev.ret = RetList(<<"t1">>) /\ Len(prev.reqs) = 1
      /\ t.t0 = prev.t1 + 1
      /\ t.t0 - prev.t0 < FreshnessWindow
      /\ Len(t.reqs) = 1
      /\ t.ret = RetList(<<"t1">>)

\* ------------------------------------------------------- initialization
EnabledServers == {s \in Servers : enabled[s]}

\* C10: whatever the interleaving of concurrent first calls into the
\* manager, a handler that runs a manager operation finds the client map
\* complete: exactly one MCPClient was built for each configured, enabled
\* server, none for any other name, and none is built twice.
C10_OneClientPerEnabledServer ==
  /\ \A s \in Servers : built[s] <= 1
  /\ (\E c \in Callers : task[c].pc # "idle")
       => /\ clients = EnabledServers
          /\ \A s \in Servers : built[s] = IF enabled[s] THEN 1 ELSE 0

C10_Witness ==
  /\ \A c \in Callers : task[c].pc = "wait_first"
  /\ \A c \in Callers : task[c].op \in ManagerOps
  /\ clients = Servers

\* ------------------------------------------------------------- fan-out
FanOps == {"get_all_tools", "get_available_servers"}
Waits == {"wait_first", "wait_second"}

\* The server an entry of the collected value stands for.
EntryServer(t, e) == IF t.op = "get_all_tools" THEN e[1] ELSE e

\* C11: in get_available_servers and get_all_tools the answer of one
\* provider, a failure included (no answer, bad status, undecodable body),
\* touches that provider's entry only: the entries collected from the
\* providers before it stay as they are, the providers after it are asked in
\* the same order as after a normal answer, and the operation goes on to
\* return the collected value.
C11_FailureStaysLocal ==
  [][\A c \in Callers :
       LET t == task[c]
           u == task'[c]
       IN  (t.op \in FanOps /\ t.pc \in Waits /\ u # t)
             => /\ u.op = t.op
                /\ u.pc \in Waits \cup {"done"}
                /\ \/ u.acc = t.acc
                   \/ /\ Len(u.acc) = Len(t.acc) + 1
                      /\ SubSeq(u.acc, 1, Len(t.acc)) = t.acc
                      /\ EntryServer(t, u.acc[Len(u.acc)]) = t.server
                /\ \A i \in 1..Len(t.acc) : EntryServer(t, t.acc[i]) # t.server
                /\ u.pc = "wait_second"
                     => (t.pc = "wait_first" /\ u.server = t.server
                           /\ u.rest = t.rest /\ u.acc = t.acc)
                /\ u.pc = "wait_first"
                     => (t.rest # <<>> /\ u.server = Head(t.rest)
                           /\ u.rest = Tail(t.rest))
                /\ u.pc = "done"
                     => /\ t.rest = <<>>
                        /\ u.ret = IF t.op = "get_all_tools"
                                   THEN [map |-> u.acc] ELSE [list |-> u.acc]
    ]_vars

C11_Witness ==
  \E c \in Callers :
    /\ task[c].op = "get_all_tools"
    /\ task[c].pc = "done"
    /\ clients = {1, 2}
    /\ task[c].server = 2
    /\ task[c].got = <<[k |-> "exc"]>>
    /\ task[c].ret = [map |-> << <<1, <<"t1">>>> >>]

\* The servers a fan-out call has still to ask.
StillToAsk(t) == {t.rest[i] : i \in 1..Len(t.rest)}

\* The servers a task has sent a request to since it turned to its current
\* client.
Asked(t) == {t.reqs[i].server : i \in 1..Len(t.reqs)}

\* C12 as claimed: a fan-out call sends the requests to its providers
\* together: while the request to one provider is in flight no other provider
\* is still waiting for its request to be sent.
C12_RequestsIssuedTogether ==
  \A c \in Callers :
    LET t == task[c]
    IN  (t.op \in FanOps /\ t.pc \in Waits) => StillToAsk(t) \subseteq Asked(t)

\* C12 as amended: a fan-out call asks its providers one after the other: it
\* has at most one request in flight, the one to the provider it is on, and
\* the providers after that one have not been sent a request.
C12_OneRequestAtATime ==
  \A c \in Callers :
    LET t == task[c]
    IN  (t.op \in FanOps /\ t.pc # "idle")
          => /\ Asked(t) \subseteq {t.server}
             /\ Asked(t) \cap StillToAsk(t) = {}
             /\ Len(t.reqs) - Len(t.got) = IF t.pc \in Waits THEN 1 ELSE 0

C12_Witness ==
  \E c \in Callers :
    /\ task[c].op = "get_available_servers"
    /\ task[c].pc = "wait_first"
    /\ clients = {1, 2}
    /\ task[c].server = 2
    /\ task[c].acc = <<1>>
    /\ task[c].reqs = <<[server |-> 2, verb |-> "GET", path |-> "/health",
                         method |-> "", stream |-> FALSE, tool |-> "",
                         args |-> ""]>>

\* ------------------------------------------------------------ liveness probes
AvailOps == {"c_is_available", "get_available_servers"}

\* The liveness check GET /health failed: no answer (timeout, connection
\* error) or a status other than 200.
HealthFailed(resp) == resp.k = "exc" \/ resp.code # 200

\* C13: on an enabled client, whenever GET /health fails for any reason (no
\* answer, or a non-success status) is_available sends the fallback probe
\* GET / before it returns.
C13_HealthFailureProbesRoot ==
  \A c \in Callers :
    LET t == task[c]
    IN  (t.op \in AvailOps /\ t.got # <<>> /\ enabled[t.server]
           /\ HealthFailed(t.got[1]))
          => /\ Len(t.reqs) = 2
             /\ t.reqs[2] = [server |-> t.server, verb |-> "GET", path |-> "/",
                             method |-> "", stream |-> FALSE, tool |-> "",
                             args |-> ""]

\* The liveness check succeeded: GET /health answered with status 200.
HealthSucceeded(t) == t.got[1] = [k |-> "status", code |-> 200]

\* The reachability probe succeeded: GET / was sent and the provider answered.
RootSucceeded(t) == Len(t.got) = 2 /\ t.got[2].k # "exc"

\* What is_available returned for the server the task is on.
Available(t) ==
  IF t.op = "c_is_available" THEN t.ret = RetBool(TRUE)
  ELSE \E i \in 1..Len(t.ret.list) : t.ret.list[i] = t.server

\* C14: is_available on an enabled client always returns a bool (it never
\* raises); it returns True only if GET /health answered with status 200 or
\* the probe of the root address got an answer, and False when neither did.
C14_AvailableOnlyIfProbeSucceeded ==
  \A c \in Callers :
    LET t == task[c]
    IN  (t.op \in AvailOps /\ t.pc = "done" /\ t.got # <<>>)
          => /\ enabled[t.server]
             /\ t.op = "c_is_available" => t.ret \in {RetBool(TRUE), RetBool(FALSE)}
             /\ t.op = "get_available_servers" => "list" \in DOMAIN t.ret
             /\ Available(t) <=> (HealthSucceeded(t) \/ RootSucceeded(t))

C14_Witness ==
  \E c \in Callers :
    /\ task[c].op = "c_is_available"
    /\ task[c].pc = "done"
    /\ task[c].got = <<[k |-> "exc"], [k |-> "exc"]>>
    /\ task[c].ret = RetBool(FALSE)

\* ------------------------------------------------------------ server info
Info(t) == t.op = "get_server_info" /\ t.server \in clients

\* The call ended with the provider's capability document.
Handshaken(t) == t.ret = RetDoc([content |-> "ok"])

\* The initialize requests a task has sent.
Handshakes(t) == {i \in 1..Len(t.reqs) : t.reqs[i].method = "initialize"}

\* C15 as claimed: after one successful handshake with a client's provider, a
\* later get_server_info call on that client sends no request and returns the
\* capability document of that handshake.
C15_HandshakeOnce ==
  LET t == task[1]
  IN  (Info(t) /\ t.pc # "idle" /\ Info(prev) /\ prev.server = t.server
         /\ Handshaken(prev))
        => /\ t.reqs = <<>>
           /\ t.pc = "done"
           /\ t.ret = prev.ret

\* C15 as amended: every get_server_info call for a managed server sends its
\* own streaming initialize request, also after a successful handshake, and
\* returns what the answers to this call decode to: the empty dict when the
\* provider does not answer this time.
C15_EveryInfoCallHandshakes ==
  LET t == task[1]
      asked(u) == /\ Handshakes(u) # {}
                  /\ u.reqs[1] = [server |-> u.server, verb |-> "POST",
                                  path |-> "/", method |-> "initialize",
                                  stream |-> TRUE, tool |-> "", args |-> ""]
  IN  /\ (Info(t) /\ t.pc # "idle") => asked(t)
      /\ Info(prev) => asked(prev)
      /\ (Info(t) /\ t.pc = "done" /\ t.got[Len(t.got)].k = "exc")
           => t.ret = RetDoc(EmptyDoc)
      /\ (Info(t) /\ t.pc = "done" /\ Info(prev) /\ prev.server = t.server)
           => Cardinality(Handshakes(prev)) + Cardinality(Handshakes(t)) >= 2

C15_Witness ==
  LET t == task[1]
  IN  /\ Info(t) /\ t.pc = "done" /\ Info(prev) /\ prev.server = t.server
      /\ Handshaken(prev)
      /\ Len(prev.reqs) = 1
      /\ Len(t.reqs) = 1
      /\ t.got = <<[k |-> "exc"]>>
      /\ t.ret = RetDoc(EmptyDoc)

\* The static descriptor fields of a client: name, address, enabled flag.
Descriptor(s) == [name |-> s, url |-> s, enabled |-> TRUE]

\* A plain body without a result: not JSON, not an object, or an object
\* without the key.
NoResult(body) == ~body.ok \/ ~Has(body.v, "result")

\* The handshake of a finished get_server_info call failed without a streamed
\* body being decoded: no answer, a non-success status, a plain body without a
\* result, or an event stream in answer to the request that asked for none.
HandshakeFailedPlainly(t) ==
  LET a == LastAnswer(t)
  IN  \/ a.k \in {"exc", "status"}
      \/ a.k = "plain" /\ NoResult(a.body)
      \/ a.k = "sse" /\ Len(t.got) = 2

\* The handshake was answered by a stream whose final JSON frame has no result
\* (or that has no JSON frame, or cannot be read).
HandshakeFailedStreamed(t) ==
  LET a == LastAnswer(t)
  IN  /\ a.k = "sse" /\ Len(t.got) = 1
      /\ LET ev == ParseEvents(a.body.lines)
         IN  ~a.body.readable \/ ev = <<>> \/ ~Has(ev[Len(ev)], "result")

\* C16 as claimed: when the handshake fails, get_server_info returns the
\* static descriptor fields of the client, so the caller never gets an empty
\* document.
C16_FailedHandshakeGivesDescriptor ==
  \A c \in Callers :
    LET t == task[c]
    IN  (Info(t) /\ t.pc = "done"
           /\ (HandshakeFailedPlainly(t) \/ HandshakeFailedStreamed(t)))
          => /\ t.ret = RetDoc(Descriptor(t.server))
             /\ t.ret # RetDoc(EmptyDoc)

\* C16 as amended: when the handshake fails by a transport error, a
\* non-success status or a plain body without a result, get_server_info
\* returns the empty dict; when the answer is a stream whose final JSON frame
\* has no result it returns an error dict or the {"events": ...} dict; in no
\* case does it return the descriptor fields.
C16_FailedHandshakeGivesEmpty ==
  \A c \in Callers :
    LET t == task[c]
    IN  (Info(t) /\ t.pc = "done")
          => /\ "doc" \in DOMAIN t.ret
             /\ HandshakeFailedPlainly(t) => t.ret = RetDoc(EmptyDoc)
             /\ HandshakeFailedStreamed(t)
                  => \/ "error" \in DOMAIN t.ret.doc
                     \/ "events" \in DOMAIN t.ret.doc
             /\ t.ret # RetDoc(Descriptor(t.server))

C16_Witness ==
  \E c \in Callers :
    /\ Info(task[c])
    /\ task[c].pc = "done"
    /\ task[c].got = <<[k |-> "status", code |-> 406], [k |-> "exc"]>>
    /\ task[c].ret = RetDoc(EmptyDoc)

\* ------------------------------------------------------------ tool catalogs
\* C17: list_server_tools with a server name that is not in the client map
\* (unconfigured, or configured but disabled) returns the empty list, which is
\* not an error value, and sends no request.
C17_UnknownServerListsNothing ==
  \A c \in Callers :
    LET t == task[c]
    IN  (t.op = "list_server_tools" /\ t.pc # "idle" /\ t.server \notin clients)
          => /\ t.pc = "done"
             /\ t.ret = RetList(<<>>)
             /\ ~IsErrorValue(t.ret)
             /\ t.reqs = <<>>
             /\ t.got = <<>>

C17_Witness ==
  \E c \in Callers :
    /\ task[c].op = "list_server_tools"
    /\ task[c].server = 0
    /\ task[c].pc = "done"
    /\ clients # {}

\* The tool list in the answers a finished listing got: the tools of the
\* result of the plain response document, or of the final JSON frame of the
\* stream that answered the streaming request; the empty list when there is
\* none (no answer, bad status, undecodable body, no result, no tools).
ToolsIn(doc) ==
  IF Has(doc, "result") /\ "tools" \in DOMAIN doc.result
  THEN doc.result.tools ELSE <<>>

ListingOf(t) ==
  LET a == LastAnswer(t)
  IN  CASE a.k = "plain" -> IF a.body.ok THEN ToolsIn(a.body.v) ELSE <<>>
        [] a.k = "sse" ->
             LET fr == Frames(a.body.lines)
                 json == {i \in 1..Len(fr) : fr[i].k = "json"}
             IN  IF Len(t.got) = 1 /\ a.body.readable /\ json # {}
                 THEN ToolsIn(fr[CHOOSE i \in json : \A j \in json : j <= i].v)
                 ELSE <<>>
        [] OTHER -> <<>>

\* The keys of a map, in its order.
Keys(m) == [i \in 1..Len(m) |-> m[i][1]]

PostKinds == {"call", "list", "info"}

\* C19: a client operation (call_tool, list_tools, get_server_info) sends at
\* most two requests: the streaming one and, only after a 406 answer to it,
\* the same request without streaming; a failed connection, a timeout or any
\* other status on either request ends the operation with no further request,
\* and so does a 406 answer to the second request.
C19_NoRetryBeyondFallback ==
  \A c \in Callers :
    LET t == task[c]
    IN  (t.pc # "idle" /\ Kind(t.op) \in PostKinds /\ t.reqs # <<>>)
          => /\ Len(t.reqs) <= 2
             /\ Len(t.got) <= Len(t.reqs)
             /\ t.reqs[1].stream
             /\ Len(t.reqs) = 2
                  => /\ t.got[1] = NotAcceptable
                     /\ t.reqs[2] = [t.reqs[1] EXCEPT !.stream = FALSE]
             /\ (Len(t.got) >= 1 /\ t.got[1] # NotAcceptable)
                  => (Len(t.reqs) = 1 /\ t.pc = "done")
             /\ (Len(t.got) = 1 /\ t.got[1] = NotAcceptable)
                  => (Len(t.reqs) = 2 /\ t.pc = "wait_second")
             /\ Len(t.got) = 2 => t.pc = "done"

C19_Witness ==
  \E c \in Callers :
    /\ task[c].op = "list_server_tools"
    /\ task[c].pc = "done"
    /\ task[c].got = <<NotAcceptable, NotAcceptable>>
    /\ Len(task[c].reqs) = 2

\* --------------------------------------------------------- the envelope
\* The frames of a streamed body that carry result or error.
Carriers(body) ==
  LET fr == Frames(body.lines)
  IN  {i \in 1..Len(fr) : Carries(fr[i], "result") \/ Carries(fr[i], "error")}

\* A finished call got a response document from the provider: the plain JSON
\* object of its last answer, or the last frame carrying result or error of
\* the stream that answered the streaming request.
HasResponseDoc(t) ==
  LET a == LastAnswer(t)
  IN  \/ a.k = "plain" /\ a.body.ok /\ a.body.v \in Envelopes
      \/ a.k = "sse" /\ Len(t.got) = 1 /\ a.body.readable
           /\ Carriers(a.body) # {}

ResponseDoc(t) ==
  LET a == LastAnswer(t)
  IN  IF a.k = "plain" THEN a.body.v
      ELSE LET cs == Carriers(a.body)
           IN  Frames(a.body.lines)[CHOOSE i \in cs : \A j \in cs : j <= i].v

\* C20: MCPManager.call_tool on a known server returns the unwrapped
\* envelope: the result document when the provider's response document
\* carries result, {"error": <error document>} when it carries error, for
\* plain, streamed and fallback responses alike.
C20_CallToolUnwraps ==
  \A c \in Callers :
    LET t == task[c]
    IN  (t.op = "call_tool" /\ t.pc = "done" /\ t.server \in clients
           /\ HasResponseDoc(t))
          => LET doc == ResponseDoc(t)
             IN  /\ "doc" \in DOMAIN t.ret
                 /\ Has(doc, "result") => t.ret.doc = doc.result
                 /\ ErrorOnly(doc) => t.ret.doc = [error |-> doc.error]

\* ------------------------------------------------------------ health check
\* C21: healthCheck reports for every configured server a status out of
\* disabled, healthy, unavailable, error; its overall status is "unhealthy"
\* when an issue was recorded, "no_servers" when none was and no server is
\* healthy, "healthy" otherwise; with no enabled server it reports
\* "no_servers" and no issue.
C21_HealthReport ==
  \A c \in Callers :
    LET t == task[c]
    IN  (t.op = "health_check" /\ t.pc = "done")
          => LET r == t.ret.health
                 healthy == {s \in Servers : r.servers[s] = "healthy"}
             IN  /\ DOMAIN r.servers = Servers
                 /\ \A s \in Servers :
                      /\ r.servers[s] \in {"disabled", "healthy",
                                           "unavailable", "error"}
                      /\ r.servers[s] = "disabled" <=> ~enabled[s]
                 /\ r.overall \in {"unhealthy", "no_servers", "healthy"}
                 /\ r.overall = "unhealthy" <=> r.issues # <<>>
                 /\ r.overall = "no_servers"
                      <=> (r.issues = <<>> /\ healthy = {})
                 /\ r.overall = "healthy"
                      <=> (r.issues = <<>> /\ healthy # {})
                 /\ EnabledServers = {}
                      => (r.overall = "no_servers" /\ r.issues = <<>>)

C21_Witness ==
  \E c \in Callers :
    /\ task[c].op = "health_check"
    /\ task[c].pc = "done"
    /\ EnabledServers = {}
    /\ task[c].ret.health.overall = "no_servers"
    /\ task[c].ret.health.issues = <<>>

\* ------------------------------------------------------ disabled servers
\* C22: the manager treats a configured but disabled server like an
\* unconfigured one: every client in its map is enabled, call_tool on a
\* disabled server's name returns the "not found" error and sends no request,
\* and no manager operation gets the None a disabled client returns.
C22_DisabledIsUnknown ==
  /\ \A s \in clients : enabled[s]
  /\ \A c \in Callers :
       LET t == task[c]
       IN  /\ (t.op = "call_tool" /\ t.pc # "idle" /\ t.server \in Servers
                 /\ ~enabled[t.server])
                => /\ t.pc = "done"
                   /\ t.ret = RetDoc(NotFoundError(t.server))
                   /\ t.reqs = <<>>
           /\ (t.op \in ManagerOps /\ t.pc = "done") => t.ret # RetNone
           /\ (t.op \in ManagerOps /\ t.pc # "idle")
                => \A i \in 1..Len(t.reqs) : enabled[t.reqs[i].server]

C22_Witness ==
  \E c \in Callers :
    /\ task[c].op = "call_tool"
    /\ task[c].pc = "done"
    /\ task[c].server = 1
    /\ ~enabled[1]
    /\ clients = {2}
    /\ task[c].ret = RetDoc(NotFoundError(1))

\* --------------------------------------------------------- the client map
\* C23: once the manager is constructed its client map is fixed: no step of
\* any manager operation, of any handler, failed or not, adds, removes or
\* replaces a client, and the enabled flags (like the names) stay as
\* configured.
C23_ClientMapFixed ==
  [][idx > NumServers
       => /\ clients' = clients
          /\ built' = built
          /\ enabled' = enabled
          /\ idx' = idx]_vars

C23_Witness ==
  /\ clients = {1, 2}
  /\ task[1].op = "call_tool"
  /\ task[1].pc = "done"
  /\ task[1].ret = RetDoc(ConnError(task[1].server))
  /\ task[2].op = "get_all_tools"
  /\ task[2].pc = "wait_first"
  /\ task[2].server = 2

\* ------------------------------------------------- success and failure
\* A finished call_tool read a JSON value as its response document: the plain
\* body of its last answer, or the final JSON frame of the stream that
\* answered the streaming request.
HasFinalDoc(t) ==
  LET a == LastAnswer(t)
  IN  \/ a.k = "plain" /\ a.body.ok
      \/ a.k = "sse" /\ Len(t.got) = 1 /\ a.body.readable
           /\ ParseEvents(a.body.lines) # <<>>

FinalDoc(t) ==
  LET a == LastAnswer(t)
  IN  IF a.k = "plain" THEN a.body.v
      ELSE LET ev == ParseEvents(a.body.lines) IN ev[Len(ev)]

\* The response document is not an envelope: it has neither result nor
\* error, or it has both.
NotOneOf(doc) == Has(doc, "result") <=> Has(doc, "error")

\* A call failed, as the claim counts it: a transport, protocol or upstream
\* error, a response document that is not an envelope included.
CallFailed(t) ==
  \/ PostFailed(t, "carrier")
  \/ HasResponseDoc(t) /\ NotOneOf(ResponseDoc(t))
  \/ HasFinalDoc(t) /\ ~HasResponseDoc(t)

\* C24 as claimed: the value call_tool returns has a top-level error key
\* exactly if the call failed; a response document with neither result nor
\* error, or with both, counts as a failure.
C24_ErrorKeyIffFailed ==
  \A c \in Callers :
    LET t == task[c]
    IN  (t.op \in CallOps /\ t.pc = "done" /\ t.got # <<>>)
          => /\ "doc" \in DOMAIN t.ret
             /\ "error" \in DOMAIN t.ret.doc <=> CallFailed(t)

\* C24 as amended: after a transport error, a bad status, an undecodable
\* body, an unreadable or empty stream, or a response document with error and
\* no result, the returned value has a top-level error key.  A response
\* document with result (with or without error) is returned as its result
\* document, and so has an error key exactly if that document has one; a
\* response document with neither key is returned as it is (plain) or inside
\* {"events": ...} (streamed), without an error key.
C24_ErrorKeyCases ==
  \A c \in Callers :
    LET t == task[c]
    IN  (t.op \in CallOps /\ t.pc = "done" /\ t.got # <<>>)
          => /\ "doc" \in DOMAIN t.ret
             /\ PostFailed(t, "final") => "error" \in DOMAIN t.ret.doc
             /\ (HasFinalDoc(t) /\ Has(FinalDoc(t), "result"))
                  => /\ t.ret.doc = FinalDoc(t).result
                     /\ "error" \in DOMAIN t.ret.doc
                          <=> "error" \in DOMAIN FinalDoc(t).result
             /\ (HasFinalDoc(t) /\ ~InRaises(FinalDoc(t))
                   /\ ~Has(FinalDoc(t), "result") /\ ~Has(FinalDoc(t), "error"))
                  => /\ "error" \notin DOMAIN t.ret.doc
                     /\ LastAnswer(t).k = "plain" => t.ret.doc = FinalDoc(t)
                     /\ LastAnswer(t).k = "sse" => "events" \in DOMAIN t.ret.doc

C24_Witness ==
  \E c \in Callers :
    /\ task[c].op = "call_tool"
    /\ task[c].pc = "done"
    /\ task[c].got = <<[k |-> "plain",
                        body |-> [ok |-> TRUE,
                                  v |-> [result |-> [content |-> "ok"],
                                         error |-> [code |-> "e1"]]]]>>
    /\ task[c].ret = RetDoc([content |-> "ok"])

\* ----------------------------------------------------------- chat history
\* C25: the chat history never holds more than 100 entries, whatever the
\* sequence of messages handled by POST /api/chat and by /ws, and the entries
\* it holds are the latest ones (the oldest are the ones dropped).
C25_HistoryBounded ==
  /\ Len(chat_history) <= HistoryLimit
  /\ \A i \in 1..Len(chat_history) :
       chat_history[i] = stored - Len(chat_history) + i

\* ------------------------------------------------------------ connections
\* C27: active_connections holds live connections only: once a /ws handler
\* has ended, for whatever reason, its socket is not in the list; and
\* disconnect is never called for a socket that is not in the list.
C27_OnlyLiveConnections ==
  \A w \in Sockets :
    /\ ws[w].pc = "ended" => ~InList(active_connections, w)
    /\ ws[w].err # "ValueError"

\* ------------------------------------------------------------ tool routing
\* C26: the function name under which a tool t of a managed server s is
\* offered is s, an underscore and t, and the tool-call handler splits it
\* back into exactly (s, t); two different (server, tool) pairs are never
\* offered under the same name.
C26_RoutingRoundTrip ==
  /\ route.pc \in {"offered", "routed"}
       => /\ \A i \in 1..2 :
               route.names[i] = route.offers[i].server \o <<"_">>
                                  \o route.offers[i].tool.name
          /\ route.offers[1] # route.offers[2]
               => route.names[1] # route.names[2]
  /\ route.pc = "routed"
       => \A i \in 1..2 :
            route.calls[i] = <<route.offers[i].server,
                               route.offers[i].tool.name>>

====
